---- MODULE Spec2Model ----
(***************************************************************************)
(* Model of the brewery analytics pipeline (src/main.py): extract_data     *)
(* (three page requests, the empty-accumulator gate, the all-text bronze   *)
(* artifact) followed by transform_data (bronze -> silver -> gold star     *)
(* schema -> three CSV exports).                                           *)
(*                                                                         *)
(* A cell of a table is a tagged record:                                   *)
(*   Null          JSON null / Python None / SQL NULL                      *)
(*   NaN           the pandas filler of a key a record does not carry      *)
(*   Txt(s)        a text that denotes no number                           *)
(*   Dec(n, m, e)  the decimal numeral text of (-1)^n * m / 10^e           *)
(*   Flt(n, s, q)  the binary32 value (-1)^n * s / 2^q                     *)
(***************************************************************************)
EXTENDS Integers, Sequences, FiniteSets, TLC

VARIABLES pc, page, responses, all_data, bronze, raw_breweries,
          silver_breweries, dim_location, dim_brewery_type, fact_breweries,
          gold, exit_code

\* pc         where the run stands: "extract" (the page loop and the gate), the
\*            steps of transform_data, "done", "exit" (sys.exit(1)) or
\*            "crashed" (an exception nothing catches)
\* page       the page the loop asks for next
\* responses  what the API answered, page by page (the run's history)
\* all_data   the accumulator of extract_data
\* bronze     data/bronze/breweries_raw.parquet
\* raw_breweries, silver_breweries, dim_location, dim_brewery_type,
\* fact_breweries   the tables of the DuckDB connection
\* gold       the files written under data/gold
\* exit_code  the status the process ends with (-1 while it runs)
vars == <<pc, page, responses, all_data, bronze, raw_breweries,
          silver_breweries, dim_location, dim_brewery_type, fact_breweries,
          gold, exit_code>>

\* ---------------------------------------------------------------- cells

Null == [k |-> "null"]
NaN == [k |-> "nan"]
Txt(s) == [k |-> "text", s |-> s]
Dec(n, m, e) == [k |-> "dec", neg |-> n, m |-> m, e |-> e]
Flt(n, s, q) == [k |-> "float", neg |-> n, sig |-> s, q |-> q]

RECURSIVE Pow(_, _)
Pow(b, n) == IF n = 0 THEN 1 ELSE b * Pow(b, n - 1)

RECURSIVE GCD(_, _)
GCD(a, b) == IF b = 0 THEN a ELSE GCD(b, a % b)

\* ------------------------------------------------- CAST(text AS FLOAT)

\* Long division of the fraction r / d, one binary digit a step, until the
\* significand holds 24 bits; the result is <<significand, q, remainder>>.
RECURSIVE SigBits(_, _, _, _)
SigBits(sig, r, q, d) ==
    IF sig >= 8388608 THEN <<sig, q, r>>
    ELSE SigBits(2 * sig + ((2 * r) \div d), (2 * r) % d, q + 1, d)

\* A faulty variant of the rounding: truncation toward zero.
RoundTowardZero(sig, r, d) == sig

\* Round to nearest, ties to even, on the bit after the 24th.
RoundNearestEven(sig, r, d) ==
    LET roundBit == (2 * r) \div d
        sticky == ((2 * r) % d) # 0
    IN IF roundBit = 1 /\ (sticky \/ sig % 2 = 1) THEN sig + 1 ELSE sig

\* DuckDB FLOAT is a 4-byte single precision number; the cast of a decimal
\* numeral is the binary32 value nearest to it.
CastDecToFloat(c) ==
    IF c.m = 0 THEN Flt(c.neg, 0, 0)
    ELSE LET d == Pow(10, c.e)
             b == SigBits(c.m \div d, c.m % d, 0, d)
             s == RoundNearestEven(b[1], b[3], d)
         IN IF s = 16777216 THEN Flt(c.neg, 8388608, b[2] - 1)
            ELSE Flt(c.neg, s, b[2])

\* The cast is defined on decimal numerals only; any other text is a
\* conversion error of the query.
CastFails(c) == c.k = "text"

CastFloat(c) ==
    IF c.k = "null" THEN Null
    ELSE IF c.k = "float" THEN c
    ELSE CastDecToFloat(c)

\* Exact comparison of a binary32 value with a decimal numeral, both
\* reduced to lowest terms.
RECURSIVE OddPart(_, _)
OddPart(s, q) == IF q > 0 /\ s % 2 = 0 THEN OddPart(s \div 2, q - 1) ELSE <<s, q>>

FloatEqDec(f, c) ==
    LET d == Pow(10, c.e)
        g == GCD(c.m, d)
        o == OddPart(f.sig, f.q)
    IN IF c.m = 0 THEN f.sig = 0
       ELSE /\ f.neg = c.neg
            /\ o[1] = c.m \div g
            /\ Pow(2, o[2]) = d \div g

\* ------------------------------------------------- str(float32)

\* f * 10^e rounded half-even to an integer: the decimal digits of the
\* fraction come out of a long division by 2^q.
RECURSIVE FracDigits(_, _, _, _)
FracDigits(acc, r, n, d) ==
    IF n = 0 THEN <<acc, r>>
    ELSE FracDigits(10 * acc + ((10 * r) \div d), (10 * r) % d, n - 1, d)

ScaledRound(f, e) ==
    LET d == Pow(2, f.q)
        fd == FracDigits(f.sig \div d, f.sig % d, e, d)
        up == 2 * fd[2] > d \/ (2 * fd[2] = d /\ fd[1] % 2 = 1)
    IN IF up THEN fd[1] + 1 ELSE fd[1]

\* The shortest decimal numeral, with at least one decimal, that reads back
\* as the same binary32 value.
RECURSIVE ShortestDec(_, _)
ShortestDec(f, e) ==
    LET c == Dec(f.neg, ScaledRound(f, e), e)
    IN IF e >= 7 \/ CastDecToFloat(c) = f THEN c ELSE ShortestDec(f, e + 1)

FormatFloat(f) == ShortestDec(f, 1)

\* ---------------------------------------------------------- configuration

\* for page in range(1, 4)
NumPages == 3

\* Bounds of the model: records in one page body (the API serves up to
\* per_page=200), records accumulated over a run, rows of a bronze file
\* handed to transform_data directly.
MaxPageLen == 2
MaxTotal == 3
MaxRows == 3

TargetCountry == Txt("United States")

RawColumns == {"id", "name", "brewery_type", "address_1", "city",
               "state_province", "postal_code", "country", "longitude",
               "latitude", "phone", "website_url"}

\* A row of the API / of the bronze file; the three pass-through columns
\* postal_code, phone and website_url carry one value each.
Brewery(id, name, type, addr, city, state, country, lon, lat) ==
    [id |-> id, name |-> name, brewery_type |-> type, address_1 |-> addr,
     city |-> city, state_province |-> state, postal_code |-> Txt("00000"),
     country |-> country, longitude |-> lon, latitude |-> lat,
     phone |-> Txt("5550100"), website_url |-> Txt("http://example.org")]

\* A JSON object that does not carry the keys ks.
Without(r, ks) == [c \in (DOMAIN r) \ ks |-> r[c]]

\* Records the API may serve: JSON strings, JSON null, missing keys.
SourcePool ==
    { Brewery(Txt("1"), Txt("abc brewing"), Txt("micro"), Txt("1 Main St"),
              Txt("Austin"), Txt("Texas"), TargetCountry,
              Dec(TRUE, 1224194, 4), Dec(FALSE, 3775, 2)),
      Brewery(Txt("2"), Txt("Xyz Ales"), Txt("brewpub"), Null,
              Txt("Austin"), Txt("Texas"), TargetCountry, Null, Null),
      Brewery(Txt("3"), Txt("nord brau"), Txt("micro"), Txt("3 King St"),
              Txt("Toronto"), Txt("Ontario"), Txt("Canada"),
              Dec(TRUE, 7938, 2), Dec(FALSE, 4365, 2)),
      Brewery(Txt("4"), Txt("OLD TOWN"), Txt("micro"), Txt("2 Oak Ave"),
              Txt("Akron"), Null, TargetCountry,
              Dec(TRUE, 9774, 2), Dec(FALSE, 3027, 2)),
      Without(Brewery(Txt("5"), Txt("lake ales"), Null, Null,
                      Txt("Akron"), Txt("Ohio"), TargetCountry,
                      Null, Dec(FALSE, 4108, 2)),
              {"address_1", "longitude"}),
      Brewery(Txt("6"), Txt("abc brewing"), Txt("brewpub"), Txt("1 Main St"),
              Txt("Austin"), Txt("Texas"), TargetCountry,
              Txt("abc"), Dec(FALSE, 3027, 2)) }

\* Rows a bronze parquet file may hold when transform_data is called on a
\* file of its own: text columns, with SQL NULLs.
ParquetPool ==
    { Brewery(Txt("1"), Txt("abc brewing"), Txt("micro"), Txt("1 Main St"),
              Txt("Austin"), Txt("Texas"), TargetCountry,
              Dec(TRUE, 9774, 2), Dec(FALSE, 3027, 2)),
      Brewery(Txt("2"), Txt("Xyz Ales"), Txt("brewpub"), Null,
              Txt("Austin"), Txt("Texas"), TargetCountry,
              Txt("None"), Txt("nan")),
      Brewery(Txt("3"), Txt("nord brau"), Txt("micro"), Txt("3 King St"),
              Txt("Toronto"), Txt("Ontario"), Txt("Canada"),
              Dec(TRUE, 7938, 2), Dec(FALSE, 4365, 2)),
      Brewery(Txt("4"), Txt("OLD TOWN"), Txt("micro"), Txt("2 Oak Ave"),
              Null, Txt("Texas"), TargetCountry,
              Null, Dec(FALSE, 3775, 2)),
      Brewery(Txt("5"), Null, Null, Txt("None"),
              Txt("Akron"), Txt("Ohio"), TargetCountry,
              Dec(TRUE, 97468182, 6), Dec(FALSE, 4108, 2)),
      Brewery(Txt("6"), Txt("lake ales"), Txt("brewpub"), Txt("4 Elm Rd"),
              Txt("Akron"), Txt("Texas"), TargetCountry,
              Dec(TRUE, 1224194, 4), Dec(FALSE, 30, 0)),
      Brewery(Txt("7"), Txt("Xyz Ales"), Txt("micro"), Null,
              Txt("Austin"), Txt("Ohio"), TargetCountry,
              Txt("nan"), Null),
      Brewery(Txt("8"), Txt("abc brewing"), Txt("micro"), Txt("1 Main St"),
              Txt("Austin"), Null, TargetCountry,
              Dec(TRUE, 9774, 2), Dec(FALSE, 3027, 2)),
      Brewery(Txt("9"), Txt("OLD TOWN"), Txt("brewpub"), Txt("2 Oak Ave"),
              Txt("Akron"), Txt("Ohio"), TargetCountry,
              Txt("abc"), Dec(FALSE, 4108, 2)) }

\* Sequences over S of length 0..n.
SeqsUpTo(S, n) == UNION {[1..k -> S] : k \in 0..n}

\* ------------------------------------------------------------- extract_data

\* pd.DataFrame(all_data): the columns are the union of the records' keys,
\* a key a record lacks is filled with NaN.
DataFrame(recs) ==
    LET cols == UNION {DOMAIN recs[i] : i \in 1..Len(recs)}
    IN [cols |-> cols,
        rows |-> [i \in 1..Len(recs) |->
                    [c \in cols |-> IF c \in DOMAIN recs[i] THEN recs[i][c] ELSE NaN]]]

\* str() of one cell: None gives 'None', NaN gives 'nan', text is itself
\* (the texts the silver query looks for in the coordinate columns).
Str(c) ==
    IF c.k = "null" THEN Txt("None")
    ELSE IF c.k = "nan" THEN Txt("nan")
    ELSE c

\* df.astype(str)
AsTypeStr(df) ==
    [cols |-> df.cols,
     rows |-> [i \in 1..Len(df.rows) |-> [c \in df.cols |-> Str(df.rows[i][c])]]]

NoFile == [cols |-> {}, rows |-> <<>>]

Init ==
    /\ pc = "extract"
    /\ page = 1
    /\ responses = <<>>
    /\ all_data = <<>>
    /\ bronze = [written |-> FALSE, table |-> NoFile]
    /\ raw_breweries = NoFile
    /\ silver_breweries = <<>>
    /\ dim_location = {}
    /\ dim_brewery_type = {}
    /\ fact_breweries = <<>>
    /\ gold = {}
    /\ exit_code = -1

TransformUnchanged ==
    UNCHANGED <<raw_breweries, silver_breweries, dim_location,
                dim_brewery_type, fact_breweries, gold>>

\* A faulty variant of the accumulation: the page body is put in front.
ExtendFront(acc, data) == data \o acc

\* all_data.extend(data)
Extend(acc, data) == acc \o data

\* A faulty variant of the loop: a page that gave nothing is asked for again.
NextPageRetry(p) == p

\* for page in range(1, 4): one request a page, answered or not.
NextPage(p) == p + 1

\* status 200: response.json() is appended to the accumulator.
FetchOk(data) ==
    /\ pc = "extract" /\ page <= NumPages
    /\ Len(all_data) + Len(data) <= MaxTotal
    /\ all_data' = Extend(all_data, data)
    /\ responses' = Append(responses, [kind |-> "ok", status |-> 200, body |-> data])
    /\ page' = NextPage(page)
    /\ UNCHANGED <<pc, bronze, exit_code>>
    /\ TransformUnchanged

\* any other status: logged, the loop goes on.
FetchBadStatus(status) ==
    /\ pc = "extract" /\ page <= NumPages
    /\ responses' = Append(responses, [kind |-> "status", status |-> status, body |-> <<>>])
    /\ page' = NextPage(page)
    /\ UNCHANGED <<pc, all_data, bronze, exit_code>>
    /\ TransformUnchanged

\* requests.get or response.json() raised: logged, the loop goes on.
FetchException ==
    /\ pc = "extract" /\ page <= NumPages
    /\ responses' = Append(responses, [kind |-> "exception", status |-> 0, body |-> <<>>])
    /\ page' = NextPage(page)
    /\ UNCHANGED <<pc, all_data, bronze, exit_code>>
    /\ TransformUnchanged

\* if len(all_data) == 0: sys.exit(1)
ExitEmpty ==
    /\ pc = "extract" /\ page > NumPages
    /\ Len(all_data) = 0
    /\ pc' = "exit"
    /\ exit_code' = 1
    /\ UNCHANGED <<page, responses, all_data, bronze>>
    /\ TransformUnchanged

\* A faulty variant of the gate: the artifact is written whatever was downloaded.
SaveRawUnguarded ==
    /\ pc = "extract" /\ page > NumPages
    /\ bronze' = [written |-> TRUE, table |-> AsTypeStr(DataFrame(all_data))]
    /\ pc' = "load"
    /\ UNCHANGED <<page, responses, all_data, exit_code>>
    /\ TransformUnchanged

\* df = pd.DataFrame(all_data).astype(str); df.to_parquet(file_path)
SaveRaw ==
    /\ pc = "extract" /\ page > NumPages
    /\ Len(all_data) # 0
    /\ bronze' = [written |-> TRUE, table |-> AsTypeStr(DataFrame(all_data))]
    /\ pc' = "load"
    /\ UNCHANGED <<page, responses, all_data, exit_code>>
    /\ TransformUnchanged

\* ------------------------------------------------------- SQL expressions

\* Three-valued logic: "true", "false", "unknown".
SqlEq(a, b) ==
    IF a.k = "null" \/ b.k = "null" THEN "unknown"
    ELSE IF a = b THEN "true" ELSE "false"

SqlOr(x, y) ==
    IF x = "true" \/ y = "true" THEN "true"
    ELSE IF x = "false" /\ y = "false" THEN "false" ELSE "unknown"

SqlAnd(x, y) ==
    IF x = "false" \/ y = "false" THEN "false"
    ELSE IF x = "true" /\ y = "true" THEN "true" ELSE "unknown"

IsNotNull(a) == IF a.k = "null" THEN "false" ELSE "true"

\* COALESCE(a, b)
Coalesce(a, b) == IF a.k = "null" THEN b ELSE a

\* UPPER of the strings of the model.
UpperStr(s) ==
    CASE s = "abc brewing" -> "ABC BREWING"
      [] s = "Xyz Ales" -> "XYZ ALES"
      [] s = "nord brau" -> "NORD BRAU"
      [] s = "lake ales" -> "LAKE ALES"
      [] s = "None" -> "NONE"
      [] s = "nan" -> "NAN"
      [] OTHER -> s

\* A faulty variant of UPPER: the case of every letter is swapped.
SwapCase(c) ==
    IF c.k # "text" THEN c
    ELSE CASE c.s = "ABC BREWING" -> Txt("abc brewing")
           [] c.s = "XYZ ALES" -> Txt("xYZ aLES")
           [] c.s = "NORD BRAU" -> Txt("nord brau")
           [] c.s = "LAKE ALES" -> Txt("lake ales")
           [] c.s = "OLD TOWN" -> Txt("old town")
           [] OTHER -> Txt(UpperStr(c.s))

\* UPPER(name)
Upper(c) == IF c.k = "text" THEN Txt(UpperStr(c.s)) ELSE c

\* CASE WHEN x = 'None' OR x = 'nan' THEN NULL ELSE CAST(x AS FLOAT) END
ParseCoordinate(x) ==
    IF SqlOr(SqlEq(x, Txt("None")), SqlEq(x, Txt("nan"))) = "true" THEN Null
    ELSE CastFloat(x)

\* WHERE state_province IS NOT NULL AND country = 'United States'
Where(r) ==
    SqlAnd(IsNotNull(r.state_province), SqlEq(r.country, TargetCountry)) = "true"

\* The select list of silver_breweries.
SilverRow(r) ==
    [brewery_id |-> r.id,
     name |-> Upper(r.name),
     brewery_type |-> r.brewery_type,
     address |-> Coalesce(r.address_1, Txt("Unknown")),
     city |-> r.city,
     state |-> r.state_province,
     postal_code |-> r.postal_code,
     country |-> r.country,
     longitude |-> ParseCoordinate(r.longitude),
     latitude |-> ParseCoordinate(r.latitude),
     phone |-> r.phone,
     website_url |-> r.website_url]

\* The rows the silver query keeps, in scan order.
Kept(t) == SelectSeq(t.rows, Where)

\* The query names a column the table lacks (binder error), or a kept row
\* holds a coordinate text that is neither a sentinel nor a number
\* (conversion error).
SilverQueryFails(t) ==
    IF ~(RawColumns \subseteq t.cols) THEN TRUE
    ELSE \E i \in 1..Len(Kept(t)) : \E c \in {"longitude", "latitude"} :
            LET x == Kept(t)[i][c]
            IN x # Txt("None") /\ x # Txt("nan") /\ CastFails(x)

Silver(t) == [i \in 1..Len(Kept(t)) |-> SilverRow(Kept(t)[i])]

\* ---------------------------------------------------------- ORDER BY

\* The texts of the model in ascending (binary) collation order.
TextOrder == <<"Akron", "Austin", "None", "Ohio", "Ontario", "Texas",
               "Toronto", "brewpub", "micro", "nan">>

Ord(c) == CHOOSE i \in 1..Len(TextOrder) : TextOrder[i] = c.s

\* Ascending order; DuckDB sorts NULL last by default.
CellLess(a, b) ==
    IF a.k = "null" THEN FALSE
    ELSE IF b.k = "null" THEN TRUE
    ELSE Ord(a) < Ord(b)

\* A faulty variant of the window order: ORDER BY city, state.
LocationLessCityFirst(a, b) ==
    \/ CellLess(a.city, b.city)
    \/ a.city = b.city /\ CellLess(a.state, b.state)

\* ORDER BY state, city
LocationLess(a, b) ==
    \/ CellLess(a.state, b.state)
    \/ a.state = b.state /\ CellLess(a.city, b.city)

\* ORDER BY brewery_type
TypeLess(a, b) == CellLess(a.brewery_type, b.brewery_type)

Range(s) == {s[i] : i \in 1..Len(s)}

\* dense_rank() OVER (ORDER BY state, city): one more than the number of
\* distinct order keys that come before the row's.
LocationRank(r, rows) ==
    1 + Cardinality({<<x.state, x.city>> : x \in {y \in rows : LocationLess(y, r)}})

\* dense_rank() OVER (ORDER BY brewery_type)
TypeRank(r, s) ==
    1 + Cardinality({x.brewery_type : x \in {y \in Range(s) : TypeLess(y, r)}})

\* SELECT DISTINCT dense_rank() ..., city, state, country FROM silver_breweries
DimLocation(s) ==
    {[location_key |-> LocationRank(r, Range(s)), city |-> r.city,
      state |-> r.state, country |-> r.country] : r \in Range(s)}

\* SELECT DISTINCT dense_rank() ..., brewery_type FROM silver_breweries
DimBreweryType(s) ==
    {[type_key |-> TypeRank(r, s), brewery_type |-> r.brewery_type] : r \in Range(s)}

\* ---------------------------------------------------------- the fact join

\* The rows of a set in a fixed order.
RECURSIVE SetToSeq(_)
SetToSeq(S) ==
    IF S = {} THEN <<>>
    ELSE LET x == CHOOSE y \in S : TRUE IN <<x>> \o SetToSeq(S \ {x})

\* A faulty variant of the location join: ON b.state = l.state only.
LocationMatchesState(b, dl) ==
    {l \in dl : SqlEq(b.state, l.state) = "true"}

\* JOIN dim_location l ON b.city = l.city AND b.state = l.state
LocationMatches(b, dl) ==
    {l \in dl : SqlAnd(SqlEq(b.city, l.city), SqlEq(b.state, l.state)) = "true"}

\* A faulty variant of the type join: a null-safe equality, under which NULL
\* matches NULL.
TypeMatchesNullSafe(b, dt) == {t \in dt : b.brewery_type = t.brewery_type}

\* JOIN dim_brewery_type t ON b.brewery_type = t.brewery_type
TypeMatches(b, dt) ==
    {t \in dt : SqlEq(b.brewery_type, t.brewery_type) = "true"}

\* The fact rows one silver row gives: one for each pair of matches.
FactRowsOf(b, dl, dt) ==
    LET pairs == SetToSeq(LocationMatches(b, dl) \X TypeMatches(b, dt))
    IN [i \in 1..Len(pairs) |->
          [brewery_id |-> b.brewery_id, name |-> b.name,
           location_key |-> pairs[i][1].location_key,
           type_key |-> pairs[i][2].type_key,
           longitude |-> b.longitude, latitude |-> b.latitude]]

RECURSIVE FactJoin(_, _, _, _)
FactJoin(s, i, dl, dt) ==
    IF i > Len(s) THEN <<>>
    ELSE FactRowsOf(s[i], dl, dt) \o FactJoin(s, i + 1, dl, dt)

Fact(s, dl, dt) == FactJoin(s, 1, dl, dt)

\* ----------------------------------------------------------- transform_data

ExtractUnchanged == UNCHANGED <<page, responses, all_data, bronze>>

\* CREATE TABLE raw_breweries AS SELECT * FROM read_parquet(parquet_file)
LoadBronze ==
    /\ pc = "load"
    /\ raw_breweries' = bronze.table
    /\ pc' = "silver"
    /\ ExtractUnchanged
    /\ UNCHANGED <<silver_breweries, dim_location, dim_brewery_type,
                   fact_breweries, gold, exit_code>>

\* CREATE TABLE silver_breweries AS SELECT ... FROM raw_breweries WHERE ...
CreateSilver ==
    /\ pc = "silver"
    /\ ~SilverQueryFails(raw_breweries)
    /\ silver_breweries' = Silver(raw_breweries)
    /\ pc' = "dim_location"
    /\ ExtractUnchanged
    /\ UNCHANGED <<raw_breweries, dim_location, dim_brewery_type,
                   fact_breweries, gold, exit_code>>

\* The silver query raises; nothing catches it and the interpreter exits
\* with status 1.
SilverRaises ==
    /\ pc = "silver"
    /\ SilverQueryFails(raw_breweries)
    /\ pc' = "crashed"
    /\ exit_code' = 1
    /\ ExtractUnchanged
    /\ UNCHANGED <<raw_breweries, silver_breweries, dim_location,
                   dim_brewery_type, fact_breweries, gold>>

CreateDimLocation ==
    /\ pc = "dim_location"
    /\ dim_location' = DimLocation(silver_breweries)
    /\ pc' = "dim_brewery_type"
    /\ ExtractUnchanged
    /\ UNCHANGED <<raw_breweries, silver_breweries, dim_brewery_type,
                   fact_breweries, gold, exit_code>>

CreateDimBreweryType ==
    /\ pc = "dim_brewery_type"
    /\ dim_brewery_type' = DimBreweryType(silver_breweries)
    /\ pc' = "fact"
    /\ ExtractUnchanged
    /\ UNCHANGED <<raw_breweries, silver_breweries, dim_location,
                   fact_breweries, gold, exit_code>>

CreateFact ==
    /\ pc = "fact"
    /\ fact_breweries' = Fact(silver_breweries, dim_location, dim_brewery_type)
    /\ pc' = "export_fact"
    /\ ExtractUnchanged
    /\ UNCHANGED <<raw_breweries, silver_breweries, dim_location,
                   dim_brewery_type, gold, exit_code>>

\* COPY fact_breweries TO 'data/gold/fact_breweries.csv'
ExportFact ==
    /\ pc = "export_fact"
    /\ gold' = gold \cup {"fact_breweries.csv"}
    /\ pc' = "export_location"
    /\ ExtractUnchanged
    /\ UNCHANGED <<raw_breweries, silver_breweries, dim_location,
                   dim_brewery_type, fact_breweries, exit_code>>

\* COPY dim_location TO 'data/gold/dim_location.csv'
ExportLocation ==
    /\ pc = "export_location"
    /\ gold' = gold \cup {"dim_location.csv"}
    /\ pc' = "export_type"
    /\ ExtractUnchanged
    /\ UNCHANGED <<raw_breweries, silver_breweries, dim_location,
                   dim_brewery_type, fact_breweries, exit_code>>

\* COPY dim_brewery_type TO 'data/gold/dim_brewery_type.csv'
ExportType ==
    /\ pc = "export_type"
    /\ gold' = gold \cup {"dim_brewery_type.csv"}
    /\ pc' = "close"
    /\ ExtractUnchanged
    /\ UNCHANGED <<raw_breweries, silver_breweries, dim_location,
                   dim_brewery_type, fact_breweries, exit_code>>

\* con.close(), the last print, and the interpreter ends with status 0.
Finish ==
    /\ pc = "close"
    /\ pc' = "done"
    /\ exit_code' = 0
    /\ ExtractUnchanged
    /\ UNCHANGED <<raw_breweries, silver_breweries, dim_location,
                   dim_brewery_type, fact_breweries, gold>>

Transform ==
    \/ LoadBronze
    \/ CreateSilver
    \/ SilverRaises
    \/ CreateDimLocation
    \/ CreateDimBreweryType
    \/ CreateFact
    \/ ExportFact
    \/ ExportLocation
    \/ ExportType
    \/ Finish

BadStatuses == {404, 500}

Next ==
    \/ \E data \in SeqsUpTo(SourcePool, MaxPageLen) : FetchOk(data)
    \/ \E status \in BadStatuses : FetchBadStatus(status)
    \/ FetchException
    \/ ExitEmpty
    \/ SaveRaw
    \/ Transform

Spec == Init /\ [][Next]_vars

\* transform_data called on a bronze file of its own.
InitTransform ==
    /\ pc = "load"
    /\ page = NumPages + 1
    /\ responses = <<>>
    /\ all_data = <<>>
    /\ \E rows \in SeqsUpTo(ParquetPool, MaxRows) :
          bronze = [written |-> TRUE, table |-> [cols |-> RawColumns, rows |-> rows]]
    /\ raw_breweries = NoFile
    /\ silver_breweries = <<>>
    /\ dim_location = {}
    /\ dim_brewery_type = {}
    /\ fact_breweries = <<>>
    /\ gold = {}
    /\ exit_code = -1

TransformSpec == InitTransform /\ [][Transform]_vars

\* ------------------------------------------------ silver back to raw names

\* A silver coordinate as the text of a raw column: a number as str() of it,
\* a missing one as nul (NULL, or the 'None' / 'nan' the extractor writes).
CoordinateText(x, nul) == IF x.k = "null" THEN nul ELSE FormatFloat(x)

\* The silver table with its columns renamed back to the raw names.
ReAlias(s, nul) ==
    [cols |-> RawColumns,
     rows |-> [i \in 1..Len(s) |->
        [id |-> s[i].brewery_id,
         name |-> s[i].name,
         brewery_type |-> s[i].brewery_type,
         address_1 |-> s[i].address,
         city |-> s[i].city,
         state_province |-> s[i].state,
         postal_code |-> s[i].postal_code,
         country |-> s[i].country,
         longitude |-> CoordinateText(s[i].longitude, nul),
         latitude |-> CoordinateText(s[i].latitude, nul),
         phone |-> s[i].phone,
         website_url |-> s[i].website_url]]]

\* =================================================================== claims

\* The records received: the bodies of the pages answered 200, in page order.
RECURSIVE OkBodies(_, _)
OkBodies(rs, i) ==
    IF i > Len(rs) THEN <<>>
    ELSE (IF rs[i].kind = "ok" THEN rs[i].body ELSE <<>>) \o OkBodies(rs, i + 1)

Received == OkBodies(responses, 1)

\* The text the bronze file holds for key c of the record r.
ExpectedRawCell(r, c) ==
    IF c \notin DOMAIN r THEN Txt("nan")
    ELSE IF r[c] = Null THEN Txt("None")
    ELSE r[c]

\* C1: whenever a run has received at least one record and left the page
\* loop, all three pages were asked for and the raw artifact is written with
\* one row for each received record, in page order then body order, each
\* cell the text of the record's value; failed pages give no row.
C1_RawIsPagesConcatenated ==
    (pc # "extract" /\ Len(Received) > 0) =>
        /\ Len(responses) = NumPages
        /\ bronze.written
        /\ Len(bronze.table.rows) = Len(Received)
        /\ \A i \in 1..Len(Received) : \A c \in DOMAIN Received[i] :
              bronze.table.rows[i][c] = ExpectedRawCell(Received[i], c)

\* A failed page between a page of two records and a page of one.
C1_Witness ==
    /\ bronze.written
    /\ Len(responses) = NumPages
    /\ responses[1].kind = "ok" /\ Len(responses[1].body) = 2
    /\ responses[1].body[1] # responses[1].body[2]
    /\ responses[2].kind # "ok"
    /\ responses[3].kind = "ok" /\ Len(responses[3].body) = 1

\* C2: when all three pages were attempted and no record was received, the
\* only step left is the exit with status 1; the raw artifact is never
\* written and transform_data never starts.
C2_EmptyExtractionExits ==
    (Len(responses) = NumPages /\ Len(Received) = 0) =>
        /\ pc \in {"extract", "exit"}
        /\ (pc = "extract" => ENABLED ExitEmpty /\ ~ENABLED SaveRaw)
        /\ (pc = "exit" => exit_code # 0)
        /\ ~bronze.written
        /\ raw_breweries = NoFile
        /\ silver_breweries = <<>>
        /\ gold = {}

\* The exit after a 200 with an empty body, a bad status and an exception.
C2_Witness ==
    /\ pc = "exit"
    /\ exit_code = 1
    /\ \E i \in 1..NumPages : responses[i].kind = "ok"
    /\ \E i \in 1..NumPages : responses[i].kind = "status"
    /\ \E i \in 1..NumPages : responses[i].kind = "exception"

\* The source record is out of the silver filter's target.
OutOfTarget(r) == r.country # TargetCountry \/ r.state_province = Null

\* C3: a received record whose country is not "United States" or whose
\* state_province is null has no row in silver_breweries or fact_breweries,
\* and every dimension row comes from a record that is in the target.
C3_OutOfTargetNeverDownstream ==
    /\ \A i \in 1..Len(all_data) : OutOfTarget(all_data[i]) =>
          /\ \A j \in 1..Len(silver_breweries) :
                silver_breweries[j].brewery_id # all_data[i].id
          /\ \A j \in 1..Len(fact_breweries) :
                fact_breweries[j].brewery_id # all_data[i].id
    /\ \A l \in dim_location : \E i \in 1..Len(all_data) :
          /\ ~OutOfTarget(all_data[i])
          /\ l.city = ExpectedRawCell(all_data[i], "city")
          /\ l.state = all_data[i].state_province
    /\ \A t \in dim_brewery_type : \E i \in 1..Len(all_data) :
          /\ ~OutOfTarget(all_data[i])
          /\ t.brewery_type = ExpectedRawCell(all_data[i], "brewery_type")

\* C8: a silver row's address is "Unknown" when its source record has no
\* address_1 value (key absent, or null), and the source address otherwise.
C8_MissingAddressIsUnknown ==
    \A i \in 1..Len(all_data) : \A j \in 1..Len(silver_breweries) :
        silver_breweries[j].brewery_id = all_data[i].id =>
            silver_breweries[j].address =
                IF "address_1" \notin DOMAIN all_data[i] \/ all_data[i].address_1 = Null
                THEN Txt("Unknown")
                ELSE all_data[i].address_1

Coordinates == {"longitude", "latitude"}

Sentinels == {Txt("None"), Txt("nan")}

\* The raw rows and the silver rows of one brewery, with a coordinate column.
RawSilverPairs ==
    IF RawColumns \subseteq raw_breweries.cols
    THEN {<<raw_breweries.rows[i], silver_breweries[j], c>> :
             i \in 1..Len(raw_breweries.rows), j \in 1..Len(silver_breweries),
             c \in Coordinates}
    ELSE {}

\* f is a binary32 value within half a unit in the last place of the
\* decimal numeral x.
NearestBinary32(f, x) ==
    LET d == Pow(10, x.e)
        p == Pow(2, f.q)
        int == x.m \div d
        r == x.m % d
        fint == f.sig \div p
        fr == f.sig % p
        diff == fr * d - r * p
    IN /\ f.k = "float"
       /\ f.neg = x.neg
       /\ f.sig >= 8388608 /\ f.sig < 16777216
       /\ \/ fint = int /\ 2 * diff <= d /\ -2 * diff <= d
          \/ fint = int + 1 /\ fr = 0 /\ 2 * (d - r) * p <= d

\* C9 as stated: a silver coordinate is null when the raw text is "None" or
\* "nan", and otherwise is the number the raw text denotes.
C9_CoordinateIsDenotedNumber ==
    \A t \in RawSilverPairs :
        t[2].brewery_id = t[1].id =>
            IF t[1][t[3]] \in Sentinels THEN t[2][t[3]] = Null
            ELSE t[2][t[3]].k = "float" /\ FloatEqDec(t[2][t[3]], t[1][t[3]])

\* C9 as amended: a silver coordinate is null when the raw text is "None" or
\* "nan", and otherwise is the binary32 value nearest to the number the raw
\* text denotes; a received record whose coordinate is null, or absent while
\* the column exists, reaches silver with a null coordinate; and the silver
\* query fails only on a missing column or on a kept row whose coordinate
\* text is neither a sentinel nor a number.
C9_CoordinateIsNearestBinary32 ==
    /\ \A t \in RawSilverPairs :
          t[2].brewery_id = t[1].id =>
              IF t[1][t[3]] \in Sentinels THEN t[2][t[3]] = Null
              ELSE NearestBinary32(t[2][t[3]], t[1][t[3]])
    /\ \A i \in 1..Len(all_data) : \A j \in 1..Len(silver_breweries) :
          \A c \in Coordinates :
              (/\ silver_breweries[j].brewery_id = all_data[i].id
               /\ (c \notin DOMAIN all_data[i] \/ all_data[i][c] = Null))
              => silver_breweries[j][c] = Null
    /\ pc = "crashed" =>
          \/ ~(RawColumns \subseteq bronze.table.cols)
          \/ \E i \in 1..Len(all_data) : \E c \in Coordinates :
                c \in DOMAIN all_data[i] /\ all_data[i][c].k = "text"

\* A finished run with a numeric coordinate that is no binary32 value, one
\* that is, a null one and an absent one.
C9_Witness ==
    /\ pc = "done"
    /\ \E j \in 1..Len(silver_breweries) :
          /\ silver_breweries[j].brewery_id = Txt("1")
          /\ silver_breweries[j].longitude = Flt(TRUE, 16045756, 17)
          /\ silver_breweries[j].latitude = Flt(FALSE, 9895936, 18)
    /\ \E j \in 1..Len(silver_breweries) :
          /\ silver_breweries[j].brewery_id = Txt("2")
          /\ silver_breweries[j].longitude = Null
    /\ \E j \in 1..Len(silver_breweries) :
          /\ silver_breweries[j].brewery_id = Txt("5")
          /\ silver_breweries[j].longitude = Null
    /\ \E i \in 1..Len(raw_breweries.rows) :
          raw_breweries.rows[i].longitude = Txt("nan")
    /\ \E i \in 1..Len(raw_breweries.rows) :
          raw_breweries.rows[i].longitude = Txt("None")

TransformPcs == {"load", "silver", "dim_location", "dim_brewery_type", "fact",
                 "export_fact", "export_location", "export_type", "close"}

TerminalPcs == {"done", "exit", "crashed"}

GoldFiles == {"fact_breweries.csv", "dim_location.csv", "dim_brewery_type.csv"}

\* The position of a state in the run: the page about to be asked for, then
\* the steps of transform_data, then the end.
Progress(at, p) ==
    CASE at = "extract" -> p
      [] at = "load" -> 5
      [] at = "silver" -> 6
      [] at = "dim_location" -> 7
      [] at = "dim_brewery_type" -> 8
      [] at = "fact" -> 9
      [] at = "export_fact" -> 10
      [] at = "export_location" -> 11
      [] at = "export_type" -> 12
      [] at = "close" -> 13
      [] OTHER -> 14

\* Some step of the program can be taken (at the silver query: it raises,
\* or it does not and the table is created).
CanStep ==
    \/ ENABLED (FetchException \/ ExitEmpty \/ SaveRaw \/ LoadBronze)
    \/ ENABLED SilverRaises
    \/ pc = "silver" /\ ~SilverQueryFails(raw_breweries)
    \/ ENABLED (CreateDimLocation \/ CreateDimBreweryType \/ CreateFact)
    \/ ENABLED (ExportFact \/ ExportLocation \/ ExportType \/ Finish)

C6_State ==
    /\ pc \in {"extract"} \cup TransformPcs \cup TerminalPcs
    /\ Len(responses) = page - 1
    /\ page <= NumPages + 1
    /\ (pc \in TransformPcs \cup {"done", "crashed"}) =>
          /\ Len(responses) = NumPages
          /\ Len(all_data) > 0
          /\ bronze.written
    /\ (pc = "done") => (gold = GoldFiles /\ exit_code = 0)
    /\ (pc \in {"exit", "crashed"}) => exit_code # 0
    /\ (pc \in TerminalPcs) <=> ~CanStep

C6_Step == Progress(pc', page') > Progress(pc, page)

\* C6: transform_data starts only after all three pages were asked for, the
\* accumulator was found non-empty and the raw artifact was written; a run
\* stops only in success (status 0, the three gold files written) or in
\* failure (non-zero status); every step moves the run forward, so that no
\* page and no stage runs twice.
C6_StrictSequence == []C6_State /\ [][C6_Step]_vars

\* A successful end and nothing left to run.
C6_Witness ==
    /\ pc = "done"
    /\ gold = GoldFiles
    /\ exit_code = 0
    /\ \E i \in 1..NumPages : responses[i].kind # "ok"

\* ------------------------------------------- claims on transform_data alone

DimsDone == pc \in {"fact", "export_fact", "export_location", "export_type",
                    "close", "done"}

FactDone == pc \in {"export_fact", "export_location", "export_type", "close",
                    "done"}

SilverRows == Range(silver_breweries)

\* a comes before b in ascending (state, city) order of texts.
StateCityBefore(a, b) ==
    \/ Ord(a.state) < Ord(b.state)
    \/ a.state = b.state /\ Ord(a.city) < Ord(b.city)

NoNullLocation(a) == a.state # Null /\ a.city # Null

\* C4: the location keys are exactly 1..N for the N distinct (city, state,
\* country) tuples of silver, one row a key, ascending in (state, city); the
\* type keys are exactly 1..M for the M distinct brewery types, one row a
\* key, ascending in brewery_type; so the keys are those of the distinct
\* values, whatever the order and the number of the rows that carry them.
C4_DenseOrderedKeys ==
    DimsDone =>
        /\ {l.location_key : l \in dim_location} =
              1..Cardinality({<<r.city, r.state, r.country>> : r \in SilverRows})
        /\ {<<l.city, l.state, l.country>> : l \in dim_location} =
              {<<r.city, r.state, r.country>> : r \in SilverRows}
        /\ \A a, b \in dim_location : a.location_key = b.location_key => a = b
        /\ \A a, b \in dim_location :
              (NoNullLocation(a) /\ NoNullLocation(b)) =>
                  (a.location_key < b.location_key <=> StateCityBefore(a, b))
        /\ {t.type_key : t \in dim_brewery_type} =
              1..Cardinality({r.brewery_type : r \in SilverRows})
        /\ {t.brewery_type : t \in dim_brewery_type} =
              {r.brewery_type : r \in SilverRows}
        /\ \A a, b \in dim_brewery_type : a.type_key = b.type_key => a = b
        /\ \A a, b \in dim_brewery_type :
              (a.brewery_type # Null /\ b.brewery_type # Null) =>
                  (a.type_key < b.type_key <=>
                      Ord(a.brewery_type) < Ord(b.brewery_type))

\* Three silver rows, two of them of one location, and two locations whose
\* (state, city) order is the reverse of their (city, state) order.
C4_Witness ==
    /\ pc = "done"
    /\ Len(silver_breweries) = 3
    /\ Cardinality(dim_location) = 2
    /\ Cardinality(dim_brewery_type) = 2
    /\ \E a, b \in dim_location :
          /\ a.city = Txt("Austin") /\ a.state = Txt("Ohio") /\ a.location_key = 1
          /\ b.city = Txt("Akron") /\ b.state = Txt("Texas") /\ b.location_key = 2

FactRows == Range(fact_breweries)

\* C5: every location_key of a fact row is the key of exactly one
\* dim_location row, every type_key the key of exactly one dim_brewery_type
\* row, and those rows carry the city and state, and the brewery_type, of the
\* silver row of the same brewery.
C5_ForeignKeysResolve ==
    FactDone =>
        \A f \in FactRows :
            /\ Cardinality({l \in dim_location : l.location_key = f.location_key}) = 1
            /\ Cardinality({t \in dim_brewery_type : t.type_key = f.type_key}) = 1
            /\ \E b \in SilverRows : b.brewery_id = f.brewery_id
            /\ \A b \in SilverRows : b.brewery_id = f.brewery_id =>
                  /\ \A l \in dim_location : l.location_key = f.location_key =>
                        l.city = b.city /\ l.state = b.state
                  /\ \A t \in dim_brewery_type : t.type_key = f.type_key =>
                        t.brewery_type = b.brewery_type

\* Fact rows of two cities of one state and of two types.
C5_Witness ==
    /\ pc = "done"
    /\ \E f, g \in FactRows :
          /\ f.location_key # g.location_key
          /\ f.type_key # g.type_key
          /\ \E a, b \in dim_location :
                /\ a.location_key = f.location_key
                /\ b.location_key = g.location_key
                /\ a.state = b.state

NullRenderings == {Null, Txt("None"), Txt("nan")}

HasJoinKeys(b) == b.city # Null /\ b.state # Null /\ b.brewery_type # Null

\* The number of indexes of a sequence at which P holds.
CountRows(s, P(_)) == Cardinality({i \in 1..Len(s) : P(s[i])})

\* C10: of each brewery, fact_breweries holds as many rows as
\* silver_breweries holds rows of it with city, state and brewery_type all
\* non-null: one fact row for each such silver row, none for the others; two
\* US records of one city with different types and a Canadian one give 2
\* fact rows, 1 location row and 2 type rows.
C10_OneFactRowPerKeyedSilverRow ==
    FactDone =>
        /\ Len(fact_breweries) = CountRows(silver_breweries, HasJoinKeys)
        /\ \A b \in SilverRows :
              LET SameKeyed(x) == x.brewery_id = b.brewery_id /\ HasJoinKeys(x)
                  Same(x) == x.brewery_id = b.brewery_id
              IN CountRows(fact_breweries, Same) = CountRows(silver_breweries, SameKeyed)
        /\ (/\ Len(raw_breweries.rows) = 3
            /\ {raw_breweries.rows[i].id : i \in 1..3} = {Txt("1"), Txt("2"), Txt("3")})
           => /\ Len(fact_breweries) = 2
              /\ Cardinality(dim_location) = 1
              /\ Cardinality(dim_brewery_type) = 2

\* Three silver rows, one without a city, and the two fact rows of the
\* others.
C10_Witness ==
    /\ pc = "done"
    /\ Len(silver_breweries) = 3
    /\ Len(fact_breweries) = 2
    /\ \E b \in SilverRows : b.city = Null /\ b.brewery_type # Null

====
